---------------------------- MODULE Spec2Model ----------------------------
(***************************************************************************)
(* Model of two Terraform resource adapters of the Cloudsmith provider:    *)
(*   - repository Geo/IP rules (resource_repository_geo_ip_rules.go)       *)
(*   - organization SAML group sync (samlImport/Create/Read/Delete/Update) *)
(* Each entry point is a sequence of remote API calls; every call is one   *)
(* step of the model, with the remote service and other clients of it      *)
(* acting between the steps.                                               *)
(***************************************************************************)
EXTENDS Naturals, Sequences, FiniteSets, TLC

VARIABLES
    gd,        \* geo: the *schema.ResourceData of the resource (local state)
    gremote,   \* geo: the remote service, per repository
    gpc,       \* geo: position inside the running entry point
    gop,       \* geo: the entry point running / last run
    gret,      \* geo: the error the last entry point returned
    gcalls,    \* geo: API calls issued by the running / last entry point
    gin,       \* geo: snapshot taken when the entry point was invoked
    gprev,     \* geo: the entry point completed before the current one
    gclean,    \* geo: no other client wrote the target since the last submit
    imp,       \* saml import: the ResourceData handed to samlImport
    sd,        \* saml: the *schema.ResourceData of the resource (local state)
    srows,     \* saml: the group-sync mappings the remote service holds
    snext,     \* saml: number of the next slug the service assigns
    swait,     \* saml: the timeout and interval of the waiter
    spc,       \* saml: position inside the running entry point
    sop,       \* saml: the entry point running / last run
    sret,      \* saml: the error the last entry point returned
    scalls,    \* saml: API calls issued by the running / last entry point
    spoll,     \* saml: the waiter run of the running / last entry point
    sin,       \* saml: snapshot of d when the entry point was invoked
    sresp,     \* saml: the list response samlRead got last
    sprev      \* saml: whether the entry point before was an accepted Create that returned nil

geoVars == <<gd, gremote, gpc, gop, gret, gcalls, gin, gprev, gclean>>
impVars == <<imp>>
samlVars == <<sd, srows, snext, swait, spc, sop, sret, scalls, spoll, sin, sresp, sprev>>
vars == <<gd, gremote, gpc, gop, gret, gcalls, gin, gprev, gclean, imp,
          sd, srows, snext, swait, spc, sop, sret, scalls, spoll, sin, sresp, sprev>>

(***************************************************************************)
(* Errors.  An error value is a record: its kind, and the context a        *)
(* fmt.Errorf("...%w") wrapper added (ctx = "none": the underlying error   *)
(* itself).                                                                *)
(***************************************************************************)
Err(kind) == [kind |-> kind, ctx |-> "none", id |-> ""]
Nil == Err("nil")
ErrNotFound == Err("http404")
ErrServer == Err("http500")

\* The HTTP status that comes with an error of the API client.
StatusOf(err) ==
    CASE err.kind = "nil" -> 200
      [] err.kind = "http404" -> 404
      [] err.kind = "http422" -> 422
      [] err.kind = "http500" -> 500
      [] OTHER -> 0

Call(name, status) == [call |-> name, status |-> status]

(***************************************************************************)
(* Field helpers (utils of the provider).                                  *)
(***************************************************************************)
\* expandStrings: the elements of a schema.Set as a []string; the order is the
\* set's hash order, which the caller does not control: every order is possible.
expandStrings(S) ==
    { s \in [1..Cardinality(S) -> S] : \A i, j \in 1..Cardinality(S) : s[i] = s[j] => i = j }

\* flattenStrings: a []string as a schema.Set.
flattenStrings(l) == { l[i] : i \in DOMAIN l }

is404(resp) == resp.status = 404

(***************************************************************************)
(* Geo/IP rules: data.                                                     *)
(***************************************************************************)
Namespaces == {"acme"}
Repositories == {"core", "edge"}
RepoKeys == Namespaces \X Repositories

RuleFields == {"cidr_allow", "cidr_deny", "country_code_allow", "country_code_deny"}

Rules(ca, cd, cca, ccd) ==
    [cidr_allow |-> ca, cidr_deny |-> cd, country_code_allow |-> cca, country_code_deny |-> ccd]

\* The rule sets a configuration may declare (and another client may submit).
RuleSets ==
    { Rules({}, {}, {}, {}),
      Rules({"10.0.0.0/8", "192.168.0.0/16"}, {}, {"US"}, {"DE"}),
      Rules({}, {"10.0.0.0/8"}, {}, {"DE"}) }

\* The payload another client of the service submits.
OtherPayloads == { Rules(<<"203.0.113.0/24">>, <<>>, <<>>, <<"FR">>) }

EmptyLists == Rules(<<>>, <<>>, <<>>, <<>>)

\* The four rule fields of a ResourceData.
RulesOf(d) == [f \in RuleFields |-> d[f]]

\* The payloads Update may build from d: expandStrings on each field.
Payloads(d) ==
    { Rules(ca, cd, cca, ccd) :
        ca \in expandStrings(d.cidr_allow), cd \in expandStrings(d.cidr_deny),
        cca \in expandStrings(d.country_code_allow),
        ccd \in expandStrings(d.country_code_deny) }

Target(d) == <<d.namespace, d.repository>>

\* Mutant: the two arguments of the Sprintf swapped.
GeoIpRulesId_Swapped(namespace, repository) ==
    repository \o "_" \o namespace \o "_geo_ip_rules"

\* fmt.Sprintf("%s_%s_geo_ip_rules", namespace, repository)
GeoIpRulesId(namespace, repository) == namespace \o "_" \o repository \o "_geo_ip_rules"

(***************************************************************************)
(* Geo/IP rules: the remote endpoints.                                     *)
(***************************************************************************)
\* ReposGeoipEnable: the errors the call may return (Nil: done).
GeoipEnableResults(key) ==
    IF gremote[key].exists THEN {Nil, ErrServer} ELSE {ErrNotFound}

\* ReposGeoipUpdate: the errors the call may return.
GeoipUpdateResults(key) ==
    IF gremote[key].exists THEN {Nil, ErrServer} ELSE {ErrNotFound}

\* ReposGeoipRead: the responses the call may return.
GeoipReadResponses(key) ==
    IF gremote[key].exists
    THEN { [status |-> 200, err |-> Nil, rules |-> gremote[key].rules],
           [status |-> 500, err |-> ErrServer, rules |-> EmptyLists] }
    ELSE { [status |-> 404, err |-> ErrNotFound, rules |-> EmptyLists] }

(***************************************************************************)
(* Geo/IP rules: the entry points.                                         *)
(***************************************************************************)
NoPrev == [op |-> "none", ok |-> FALSE, rules |-> Rules({}, {}, {}, {})]

GeoInit ==
    /\ gd \in { [namespace |-> k[1], repository |-> k[2], id |-> "",
                 cidr_allow |-> {}, cidr_deny |-> {},
                 country_code_allow |-> {}, country_code_deny |-> {}] : k \in RepoKeys }
    /\ gremote = [k \in RepoKeys |-> [exists |-> TRUE, enabled |-> FALSE, rules |-> EmptyLists]]
    /\ gpc = "idle"
    /\ gop = "none"
    /\ gret = Nil
    /\ gcalls = <<>>
    /\ gin = gd
    /\ gprev = NoPrev
    /\ gclean = TRUE

\* The framework invokes an entry point: Create and Update with the declared
\* rule sets in d, Read and Delete with the stored state.
GeoInvoke(op, d, pc) ==
    /\ gpc = "idle"
    /\ gprev' = [op |-> gop, ok |-> (gret = Nil),
                  rules |-> IF gop = "Update" THEN RulesOf(gin) ELSE NoPrev.rules]
    /\ gop' = op
    /\ gd' = d
    /\ gin' = d
    /\ gpc' = pc
    /\ gret' = Nil
    /\ gcalls' = <<>>
    /\ UNCHANGED <<gremote, gclean>>
    /\ UNCHANGED <<impVars, samlVars>>

WithRules(d, R) == [f \in DOMAIN d |-> IF f \in RuleFields THEN R[f] ELSE d[f]]

\* Create gets the data of a new resource: the identity is not set yet.
GeoBeginCreate ==
    \E R \in RuleSets : GeoInvoke("Create", WithRules([gd EXCEPT !.id = ""], R), "enable")
GeoBeginUpdate == \E R \in RuleSets : GeoInvoke("Update", WithRules(gd, R), "update")
GeoBeginRead == GeoInvoke("Read", gd, "read")
GeoBeginDelete == GeoInvoke("Delete", gd, "delete")

GeoReturn(err) ==
    /\ gpc' = "idle"
    /\ gret' = err

\* Mutant: a not-found error of the enable call is passed over, as Read passes
\* over a not-found response.
CreateAfterEnable_Skip404(err) == IF err # Nil /\ err # ErrNotFound THEN "return" ELSE "update"

\* Mutant: the error of the enable call is dropped and Create goes on.
CreateAfterEnable_IgnoreErr(err) == "update"

\* resourceRepositoryGeoIpRulesCreate, lines 23-31: enable, then Update.
CreateAfterEnable(err) == IF err # Nil THEN "return" ELSE "update"

GeoCreateEnable ==
    /\ gpc = "enable"
    /\ \E err \in GeoipEnableResults(Target(gd)) :
         /\ gcalls' = Append(gcalls, Call("enable", StatusOf(err)))
         /\ gremote' = IF err = Nil
                       THEN [gremote EXCEPT ![Target(gd)].enabled = TRUE]
                       ELSE gremote
         /\ IF CreateAfterEnable(err) = "return"
            THEN GeoReturn(err)
            ELSE gpc' = "update" /\ gret' = gret
    /\ UNCHANGED <<gd, gop, gin, gprev, gclean>>
    /\ UNCHANGED <<impVars, samlVars>>

\* resourceRepositoryGeoIpRulesUpdate, lines 87-92: what d is after the call.
UpdateSetId(d, err) ==
    IF err # Nil THEN d ELSE [d EXCEPT !.id = GeoIpRulesId(d.namespace, d.repository)]

GeoUpdateSubmit ==
    /\ gpc = "update"
    /\ \E payload \in Payloads(gd), err \in GeoipUpdateResults(Target(gd)) :
         /\ gcalls' = Append(gcalls, Call("update", StatusOf(err)))
         /\ gremote' = IF err = Nil
                       THEN [gremote EXCEPT ![Target(gd)].rules = payload]
                       ELSE gremote
         /\ gclean' = IF err = Nil THEN TRUE ELSE gclean
         /\ gd' = UpdateSetId(gd, err)
         /\ IF err # Nil THEN GeoReturn(err) ELSE gpc' = "read" /\ gret' = gret
    /\ UNCHANGED <<gop, gin, gprev>>
    /\ UNCHANGED <<impVars, samlVars>>

\* Mutant: cidr_allow is filled from the deny list of the response.
ReadResult_AllowFromDeny(d, resp) ==
    IF resp.err # Nil
    THEN IF is404(resp)
         THEN [d |-> [d EXCEPT !.id = ""], ret |-> Nil]
         ELSE [d |-> d, ret |-> resp.err]
    ELSE [d |-> [d EXCEPT !.cidr_allow = flattenStrings(resp.rules.cidr_deny),
                          !.cidr_deny = flattenStrings(resp.rules.cidr_deny),
                          !.country_code_allow = flattenStrings(resp.rules.country_code_allow),
                          !.country_code_deny = flattenStrings(resp.rules.country_code_deny)],
          ret |-> Nil]

\* resourceRepositoryGeoIpRulesRead, lines 42-66: d and the returned error.
ReadResult(d, resp) ==
    IF resp.err # Nil
    THEN IF is404(resp)
         THEN [d |-> [d EXCEPT !.id = ""], ret |-> Nil]
         ELSE [d |-> d, ret |-> resp.err]
    ELSE [d |-> [d EXCEPT !.cidr_allow = flattenStrings(resp.rules.cidr_allow),
                          !.cidr_deny = flattenStrings(resp.rules.cidr_deny),
                          !.country_code_allow = flattenStrings(resp.rules.country_code_allow),
                          !.country_code_deny = flattenStrings(resp.rules.country_code_deny),
                          !.namespace = d.namespace,
                          !.repository = d.repository],
          ret |-> Nil]

GeoRead ==
    /\ gpc = "read"
    /\ \E resp \in GeoipReadResponses(Target(gd)) :
         /\ gcalls' = Append(gcalls, Call("read", resp.status))
         /\ gd' = ReadResult(gd, resp).d
         /\ GeoReturn(ReadResult(gd, resp).ret)
    /\ UNCHANGED <<gremote, gop, gin, gprev, gclean>>
    /\ UNCHANGED <<impVars, samlVars>>

\* Mutant: Delete leaves one deny rule in the payload.
DeletePayload_KeepsDeny == Rules(<<>>, <<"10.0.0.0/8">>, <<>>, <<>>)

\* resourceRepositoryGeoIpRulesDelete, lines 104-114: the payload submitted.
DeletePayload == Rules(<<>>, <<>>, <<>>, <<>>)

\* Mutant: Delete also turns Geo/IP filtering off on the repository.
DeleteRemote_Disables(remote, key, err) ==
    IF err = Nil
    THEN [remote EXCEPT ![key].rules = DeletePayload, ![key].enabled = FALSE]
    ELSE remote

\* resourceRepositoryGeoIpRulesDelete, lines 115-118: the one call Delete
\* makes, the rule-set update call, and what it does to the remote service.
DeleteRemote(remote, key, err) ==
    IF err = Nil
    THEN [remote EXCEPT ![key].rules = DeletePayload]
    ELSE remote

GeoDelete ==
    /\ gpc = "delete"
    /\ \E err \in GeoipUpdateResults(Target(gd)) :
         /\ gcalls' = Append(gcalls, Call("update", StatusOf(err)))
         /\ gremote' = DeleteRemote(gremote, Target(gd), err)
         /\ gclean' = IF err = Nil THEN TRUE ELSE gclean
         /\ GeoReturn(err)
    /\ UNCHANGED <<gd, gop, gin, gprev>>
    /\ UNCHANGED <<impVars, samlVars>>

\* Another client of the remote service rewrites the rules of a repository.
GeoOtherWrite ==
    \E k \in RepoKeys, payload \in OtherPayloads :
        /\ gremote[k].exists
        /\ gremote[k].rules # payload
        /\ gremote' = [gremote EXCEPT ![k].rules = payload]
        /\ gclean' = IF k = Target(gd) THEN FALSE ELSE gclean
        /\ UNCHANGED <<gd, gpc, gop, gret, gcalls, gin, gprev>>
        /\ UNCHANGED <<impVars, samlVars>>

\* A repository is removed from the remote service (for good: its name is gone).
GeoRepoRemoved ==
    \E k \in RepoKeys :
        /\ gremote[k].exists
        /\ gremote' = [gremote EXCEPT ![k].exists = FALSE]
        /\ UNCHANGED <<gd, gpc, gop, gret, gcalls, gin, gprev, gclean>>
        /\ UNCHANGED <<impVars, samlVars>>

GeoNext ==
    \/ GeoBeginCreate
    \/ GeoBeginUpdate
    \/ GeoBeginRead
    \/ GeoBeginDelete
    \/ GeoCreateEnable
    \/ GeoUpdateSubmit
    \/ GeoRead
    \/ GeoDelete
    \/ GeoOtherWrite
    \/ GeoRepoRemoved

(***************************************************************************)
(* SAML group sync: samlImport.  The import identifier is parsed character *)
(* by character, so here a string is a sequence of characters.             *)
(***************************************************************************)
MaxIdLen == 4
Alphabet == {"a", "b", "."}

\* The strings of at most n characters.
Strings(n) == UNION { [1..k -> Alphabet] : k \in 0..n }

\* The index of the first sep in s, 0 when there is none.
IndexOf(s, sep) ==
    IF \E i \in DOMAIN s : s[i] = sep
    THEN CHOOSE i \in DOMAIN s : s[i] = sep /\ \A j \in 1..(i - 1) : s[j] # sep
    ELSE 0

\* strings.Split(s, sep) for a one-character sep: the substrings between the
\* separators, one more than there are separators.
RECURSIVE Split(_, _)
Split(s, sep) ==
    IF IndexOf(s, sep) = 0
    THEN <<s>>
    ELSE <<SubSeq(s, 1, IndexOf(s, sep) - 1)>>
             \o Split(SubSeq(s, IndexOf(s, sep) + 1, Len(s)), sep)

\* Mutant: the length test is "fewer than two parts".
samlImport_AtLeastTwo(d) ==
    IF Len(Split(d.id, ".")) < 2
    THEN [d |-> d, err |-> "ImportFormatError"]
    ELSE [d |-> [d EXCEPT !.organization = Split(d.id, ".")[1],
                          !.id = Split(d.id, ".")[2]],
          err |-> "nil"]

\* samlImport, lines 14-23: d after the call and the error returned.
samlImport(d) ==
    IF Len(Split(d.id, ".")) # 2
    THEN [d |-> d, err |-> "ImportFormatError"]
    ELSE [d |-> [d EXCEPT !.organization = Split(d.id, ".")[1],
                          !.id = Split(d.id, ".")[2]],
          err |-> "nil"]

\* The ResourceData of an import and what is recorded about the call.
ImpIdle == [d |-> [id |-> <<>>, organization |-> <<>>], in |-> [id |-> <<>>, organization |-> <<>>],
            status |-> "idle", err |-> "nil"]

ImpInit ==
    imp \in { [d |-> [id |-> s, organization |-> o], in |-> [id |-> s, organization |-> o],
               status |-> "new", err |-> "nil"] :
               s \in Strings(MaxIdLen), o \in {<<>>, <<"b">>} }

SamlImport ==
    /\ imp.status = "new"
    /\ imp' = [imp EXCEPT !.d = samlImport(imp.d).d,
                          !.err = samlImport(imp.d).err,
                          !.status = "done"]
    /\ UNCHANGED <<geoVars, samlVars>>

GeoIdle ==
    /\ gd = [namespace |-> "acme", repository |-> "core", id |-> "",
             cidr_allow |-> {}, cidr_deny |-> {},
             country_code_allow |-> {}, country_code_deny |-> {}]
    /\ gremote = [k \in RepoKeys |-> [exists |-> TRUE, enabled |-> FALSE, rules |-> EmptyLists]]
    /\ gpc = "off"
    /\ gop = "none"
    /\ gret = Nil
    /\ gcalls = <<>>
    /\ gin = gd
    /\ gprev = NoPrev
    /\ gclean = TRUE

(***************************************************************************)
(* The waiter (bounded poller).  One iteration: the result of the checker  *)
(* is looked at, then the waiter sleeps for the interval; time passes only *)
(* while it sleeps.                                                        *)
(***************************************************************************)
MaxTimeout == 3
MaxInterval == 2

ErrKeepWaiting == Err("keep_waiting")
ErrTimedOut == Err("timed_out")

\* A run of the waiter: its state, the invocations of the checker so far, the
\* time slept, the error it reports; and, recorded beside it, the call site and
\* the status of the list response each invocation of the checker got.
PollIdle == [state |-> "Idle", calls |-> 0, elapsed |-> 0, err |-> Nil,
             site |-> "none", seen |-> <<>>]
PollStart(site) == [state |-> "Running", calls |-> 0, elapsed |-> 0, err |-> Nil,
                    site |-> site, seen |-> <<>>]

\* waiter(checkerFunc, timeout, interval): the run after one more invocation
\* of the checker, which returned r.
waiter(run, r, timeout, interval) ==
    IF r = Nil
    THEN [run EXCEPT !.state = "Succeeded", !.calls = @ + 1]
    ELSE IF r # ErrKeepWaiting
    THEN [run EXCEPT !.state = "FatalError", !.calls = @ + 1, !.err = r]
    ELSE IF run.elapsed + interval > timeout
    THEN [run EXCEPT !.state = "TimedOut", !.calls = @ + 1,
                     !.elapsed = @ + interval, !.err = ErrTimedOut]
    ELSE [run EXCEPT !.calls = @ + 1, !.elapsed = @ + interval]

(***************************************************************************)
(* SAML group sync: data.                                                  *)
(***************************************************************************)
MaxSlugs == 2

Organizations == {"org1"}

\* The teams the organization has.
RemoteTeams == {"dev-team", "ops-team"}

Mapping(k, v, r, t) == [idp_key |-> k, idp_value |-> v, role |-> r, team |-> t]

\* The mappings a configuration may declare.
Mappings ==
    { Mapping("groups", "devs", "Member", "dev-team"),
      Mapping("groups", "ops", "Manager", "ops-team"),
      Mapping("department", "qa", "Member", "ghost-team") }

MappingFields == {"idp_key", "idp_value", "role", "team"}

\* saml.GetSlugPerm() of the n-th mapping the service creates.
SlugOf(n) == "slug" \o ToString(n)

\* A mapping as the list endpoint returns it.
Item(row) == [slug_perm |-> row.slug_perm, idp_key |-> row.idp_key,
              idp_value |-> row.idp_value, role |-> row.role, team |-> row.team]

ErrUnprocessable == Err("http422")
ErrTransport == Err("transport")

\* fmt.Errorf("team does not exist, please check that the team exist")
ErrTeamDoesNotExist == Err("team_does_not_exist")

\* Mutant: only the waiter's timeout error gets the context, any other error of
\* the waiter is returned as it is.
Wrap_TimeoutOnly(err, what, id) ==
    IF err.kind = "timed_out" THEN [err EXCEPT !.ctx = what, !.id = id] ELSE err

\* fmt.Errorf("error waiting for SAML group sync (%s) to be <what>: %w", d.Id(), err)
Wrap(err, what, id) == [err EXCEPT !.ctx = what, !.id = id]

(***************************************************************************)
(* SAML group sync: the remote endpoints.  A created mapping is "pending"  *)
(* until the list shows it, a deleted one is "zombie" while the list still *)
(* shows it.                                                               *)
(***************************************************************************)
Listed == { row \in srows : row.vis \in {"live", "zombie"} }
Held == { row \in srows : row.vis \in {"pending", "live"} }

\* OrgsSamlGroupSyncList: the responses the call may return.  Status 0 is a
\* transport error: there is no response.  The list answers not-found while it
\* is not ready (a created mapping is still pending) or has nothing to show,
\* and 422 while the organization holds a mapping to a team that does not exist.
SamlListResponses ==
    { [status |-> 200, err |-> Nil, page |-> { Item(row) : row \in Listed }],
      [status |-> 500, err |-> ErrServer, page |-> {}],
      [status |-> 0, err |-> ErrTransport, page |-> {}] }
    \cup (IF srows = {} \/ \E row \in srows : row.vis = "pending"
          THEN { [status |-> 404, err |-> ErrNotFound, page |-> {}] }
          ELSE {})
    \cup (IF \E row \in Held : row.team \notin RemoteTeams
          THEN { [status |-> 422, err |-> ErrUnprocessable, page |-> {}] }
          ELSE {})

\* OrgsSamlGroupSyncCreate: [err, rows]: the error returned and the rows the
\* service then holds.  The new mapping gets the next slug.
SamlCreateResults(d) ==
    { [err |-> ErrServer, rows |-> srows] }
    \cup IF \E row \in Held : /\ row.idp_key = d.idp_key
                              /\ row.idp_value = d.idp_value
                              /\ row.team = d.team
         THEN {}
         ELSE { [err |-> Nil,
                 rows |-> srows \cup { [slug_perm |-> SlugOf(snext), idp_key |-> d.idp_key,
                                        idp_value |-> d.idp_value, role |-> d.role,
                                        team |-> d.team, vis |-> v] }] :
                v \in {"pending", "live"} }

\* OrgsSamlGroupSyncDelete: [err, rows].
SamlDeleteResults(slug) ==
    IF \E row \in Held : row.slug_perm = slug
    THEN { [err |-> ErrServer, rows |-> srows],
           [err |-> Nil, rows |-> { row \in srows : row.slug_perm # slug }],
           [err |-> Nil,
            rows |-> { IF row.slug_perm = slug THEN [row EXCEPT !.vis = "zombie"] ELSE row :
                       row \in srows }] }
    ELSE { [err |-> ErrNotFound, rows |-> srows] }

(***************************************************************************)
(* SAML group sync: the entry points.                                      *)
(***************************************************************************)
\* What is kept of the list response samlRead got: its status and the entries
\* of its page whose slugPerm is the stored identity.
Seen(resp, id) == [status |-> resp.status,
                   match |-> { item \in resp.page : item.slug_perm = id }]
NoResp == [status |-> 0, match |-> {}]

NewData(org) == [organization |-> org, idp_key |-> "", idp_value |-> "", role |-> "",
                 team |-> "", slug_perm |-> "", id |-> ""]

WithMapping(d, m) == [f \in DOMAIN d |-> IF f \in MappingFields THEN m[f] ELSE d[f]]

SamlInit ==
    /\ sd \in { NewData(org) : org \in Organizations }
    /\ srows = {}
    /\ snext = 1
    /\ swait \in [timeout : 0..MaxTimeout, interval : 1..MaxInterval]
    /\ spc = "idle"
    /\ sop = "none"
    /\ sret = Nil
    /\ scalls = <<>>
    /\ spoll = PollIdle
    /\ sin = sd
    /\ sresp = NoResp
    /\ sprev = "none"

SamlIdle ==
    /\ sd = NewData("org1")
    /\ srows = {}
    /\ snext = 1
    /\ swait = [timeout |-> 0, interval |-> 1]
    /\ spc = "off"
    /\ sop = "none"
    /\ sret = Nil
    /\ scalls = <<>>
    /\ spoll = PollIdle
    /\ sin = sd
    /\ sresp = NoResp
    /\ sprev = "none"

\* The create call of the entry point that ran last was accepted.
CreateAccepted == \E i \in DOMAIN scalls : scalls[i] = Call("create", 200)

\* The framework invokes an entry point.
SamlInvoke(op, d, pc) ==
    /\ spc = "idle"
    /\ sprev' = IF sop = "Create" /\ CreateAccepted /\ sret = Nil THEN "CreateOk" ELSE "other"
    /\ sop' = op
    /\ sd' = d
    /\ sin' = d
    /\ spc' = pc
    /\ sret' = Nil
    /\ scalls' = <<>>
    /\ spoll' = PollIdle
    /\ sresp' = NoResp
    /\ UNCHANGED <<srows, snext, swait>>
    /\ UNCHANGED <<geoVars, impVars>>

\* Create: a new resource, with the declared mapping.
SamlBeginCreate ==
    \E m \in Mappings :
        /\ snext <= MaxSlugs
        /\ SamlInvoke("Create", WithMapping(NewData(sd.organization), m), "create_call")

\* Update: the stored resource, with the declared mapping.
SamlBeginUpdate ==
    \E m \in Mappings :
        /\ snext <= MaxSlugs
        /\ sd.id # ""
        /\ SamlInvoke("Update", WithMapping(sd, m), "delete_call")

SamlBeginRead == SamlInvoke("Read", sd, "read")

SamlBeginDelete == SamlInvoke("Delete", sd, "delete_call")

SamlReturn(err) ==
    /\ spc' = "idle"
    /\ sret' = err

\* Mutant: the identity is not set before the wait.
CreateSetId_NotYet(d, slug) == d

\* samlCreate, line 44: d.SetId(saml.GetSlugPerm()).
CreateSetId(d, slug) == [d EXCEPT !.id = slug]

\* samlCreate, lines 39-44: the create call.
SamlCreateCall ==
    /\ spc = "create_call"
    /\ \E res \in SamlCreateResults(sd) :
         /\ scalls' = Append(scalls, Call("create", StatusOf(res.err)))
         /\ srows' = res.rows
         /\ IF res.err # Nil
            THEN /\ SamlReturn(res.err)
                 /\ UNCHANGED <<sd, snext, spoll>>
            ELSE /\ sd' = CreateSetId(sd, SlugOf(snext))
                 /\ snext' = snext + 1
                 /\ spoll' = PollStart("created")
                 /\ spc' = "create_poll"
                 /\ sret' = sret
    /\ UNCHANGED <<swait, sop, sin, sresp, sprev>>
    /\ UNCHANGED <<geoVars, impVars>>

\* Mutant: the 422 status is taken for "not there yet", like the 404.
CreateChecker_Retry422(resp) ==
    IF resp.err # Nil
    THEN IF resp.status # 0 /\ (is404(resp) \/ resp.status = 422)
         THEN ErrKeepWaiting
         ELSE resp.err
    ELSE Nil

\* Mutant: the 404 status ends the wait, as it does in samlDelete.
CreateChecker_Done404(resp) ==
    IF resp.err # Nil
    THEN IF resp.status # 0 /\ is404(resp)
         THEN Nil
         ELSE IF resp.status # 0 /\ resp.status = 422
         THEN ErrTeamDoesNotExist
         ELSE resp.err
    ELSE Nil

\* Mutant: an error without a response is taken for "not there yet".
CreateChecker_RetryTransport(resp) ==
    IF resp.err # Nil
    THEN IF resp.status = 0 \/ is404(resp)
         THEN ErrKeepWaiting
         ELSE IF resp.status = 422
         THEN ErrTeamDoesNotExist
         ELSE resp.err
    ELSE Nil

\* Mutant: a successful list call ends the wait only when its page holds the
\* new mapping.
CreateChecker_Scans(resp) ==
    IF resp.err # Nil
    THEN IF resp.status # 0 /\ is404(resp)
         THEN ErrKeepWaiting
         ELSE IF resp.status # 0 /\ resp.status = 422
         THEN ErrTeamDoesNotExist
         ELSE resp.err
    ELSE IF \E item \in resp.page : item.slug_perm = sd.id
         THEN Nil
         ELSE ErrKeepWaiting

\* samlCreate, lines 46-61: checkerFunc, on the response of the list call.
CreateChecker(resp) ==
    IF resp.err # Nil
    THEN IF resp.status # 0 /\ is404(resp)
         THEN ErrKeepWaiting
         ELSE IF resp.status # 0 /\ resp.status = 422
         THEN ErrTeamDoesNotExist
         ELSE resp.err
    ELSE Nil

\* samlCreate, lines 63-67: one iteration of the waiter, then Read or return.
SamlCreatePoll ==
    /\ spc = "create_poll"
    /\ \E resp \in SamlListResponses :
         LET run == waiter(spoll, CreateChecker(resp), swait.timeout, swait.interval) IN
         /\ scalls' = Append(scalls, Call("list", resp.status))
         /\ spoll' = [run EXCEPT !.seen = Append(@, resp.status)]
         /\ CASE run.state = "Running" -> spc' = spc /\ sret' = sret
              [] run.state = "Succeeded" -> spc' = "read" /\ sret' = sret
              [] OTHER -> SamlReturn(Wrap(run.err, "created", sd.id))
    /\ UNCHANGED <<sd, srows, snext, swait, sop, sin, sresp, sprev>>
    /\ UNCHANGED <<geoVars, impVars>>

\* Mutant: the identity is kept when no entry of the page matches it.
samlRead_KeepsId(d, resp) ==
    IF resp.err # Nil
    THEN IF is404(resp)
         THEN [d |-> [d EXCEPT !.id = ""], ret |-> Nil]
         ELSE [d |-> d, ret |-> resp.err]
    ELSE IF \E item \in resp.page : item.slug_perm = d.id
    THEN LET item == CHOOSE it \in resp.page : it.slug_perm = d.id IN
         [d |-> [d EXCEPT !.idp_key = item.idp_key,
                          !.idp_value = item.idp_value,
                          !.role = item.role,
                          !.team = item.team,
                          !.slug_perm = item.slug_perm],
          ret |-> Nil]
    ELSE [d |-> d, ret |-> Nil]

\* samlRead, lines 82-108: d after the list call and the error returned.
samlRead(d, resp) ==
    IF resp.err # Nil
    THEN IF is404(resp)
         THEN [d |-> [d EXCEPT !.id = ""], ret |-> Nil]
         ELSE [d |-> d, ret |-> resp.err]
    ELSE IF \E item \in resp.page : item.slug_perm = d.id
    THEN LET item == CHOOSE it \in resp.page : it.slug_perm = d.id IN
         [d |-> [d EXCEPT !.idp_key = item.idp_key,
                          !.idp_value = item.idp_value,
                          !.role = item.role,
                          !.team = item.team,
                          !.slug_perm = item.slug_perm,
                          !.organization = d.organization],
          ret |-> Nil]
    ELSE [d |-> [d EXCEPT !.id = ""], ret |-> Nil]

SamlRead ==
    /\ spc = "read"
    /\ \E resp \in SamlListResponses :
         /\ scalls' = Append(scalls, Call("list", resp.status))
         /\ sresp' = Seen(resp, sd.id)
         /\ sd' = samlRead(sd, resp).d
         /\ SamlReturn(samlRead(sd, resp).ret)
    /\ UNCHANGED <<srows, snext, swait, sop, spoll, sin, sprev>>
    /\ UNCHANGED <<geoVars, impVars>>

\* samlDelete, lines 115-119: the delete call.
SamlDeleteCall ==
    /\ spc = "delete_call"
    /\ \E res \in SamlDeleteResults(sd.id) :
         /\ scalls' = Append(scalls, Call("delete", StatusOf(res.err)))
         /\ srows' = res.rows
         /\ IF res.err # Nil
            THEN SamlReturn(res.err) /\ spoll' = spoll
            ELSE spoll' = PollStart("deleted") /\ spc' = "delete_poll" /\ sret' = sret
    /\ UNCHANGED <<sd, snext, swait, sop, sin, sresp, sprev>>
    /\ UNCHANGED <<geoVars, impVars>>

\* Mutant: the 404 status is taken for "not there yet", as it is in samlCreate.
DeleteChecker_Retry404(resp) ==
    IF resp.err # Nil
    THEN IF resp.status # 0 /\ is404(resp)
         THEN ErrKeepWaiting
         ELSE resp.err
    ELSE Nil

\* samlDelete, lines 121-133: checkerFunc, on the response of the list call.
DeleteChecker(resp) ==
    IF resp.err # Nil
    THEN IF resp.status # 0 /\ is404(resp)
         THEN Nil
         ELSE resp.err
    ELSE Nil

\* Mutant: Update ends with its Delete step.
AfterDelete_NoCreate(op) == "return"

\* samlDelete, line 138, and samlUpdate, lines 143-146: what follows a
\* samlDelete that went through: samlCreate in Update, "return nil" in Delete.
AfterDelete(op) == IF op = "Update" THEN "create" ELSE "return"

\* samlDelete, lines 135-138, and samlUpdate, lines 143-146: one iteration of
\* the waiter, then return, or go on to samlCreate when Update is running.
SamlDeletePoll ==
    /\ spc = "delete_poll"
    /\ \E resp \in SamlListResponses :
         LET run == waiter(spoll, DeleteChecker(resp), swait.timeout, swait.interval) IN
         /\ scalls' = Append(scalls, Call("list", resp.status))
         /\ spoll' = [run EXCEPT !.seen = Append(@, resp.status)]
         /\ CASE run.state = "Running" -> spc' = spc /\ sret' = sret
              [] run.state = "Succeeded" ->
                   IF AfterDelete(sop) = "create"
                   THEN spc' = "create_call" /\ sret' = sret
                   ELSE SamlReturn(Nil)
              [] OTHER -> SamlReturn(Wrap(run.err, "deleted", sd.id))
    /\ UNCHANGED <<sd, srows, snext, swait, sop, sin, sresp, sprev>>
    /\ UNCHANGED <<geoVars, impVars>>

\* The remote service catches up: the list starts to show a created mapping,
\* or stops showing a deleted one.
SamlSettle ==
    \E row \in srows :
        /\ row.vis \in {"pending", "zombie"}
        /\ srows' = IF row.vis = "pending"
                    THEN (srows \ {row}) \cup { [row EXCEPT !.vis = "live"] }
                    ELSE srows \ {row}
        /\ UNCHANGED <<sd, snext, swait, spc, sop, sret, scalls, spoll, sin, sresp, sprev>>
        /\ UNCHANGED <<geoVars, impVars>>

SamlNext ==
    \/ SamlBeginCreate
    \/ SamlBeginUpdate
    \/ SamlBeginRead
    \/ SamlBeginDelete
    \/ SamlCreateCall
    \/ SamlCreatePoll
    \/ SamlRead
    \/ SamlDeleteCall
    \/ SamlDeletePoll
    \/ SamlSettle

(***************************************************************************)
(* Specifications: one per adapter, the other adapters' state at rest.     *)
(***************************************************************************)
GeoSpecInit == GeoInit /\ imp = ImpIdle /\ SamlIdle

SpecGeo == GeoSpecInit /\ [][GeoNext]_vars

ImportSpecInit == ImpInit /\ GeoIdle /\ SamlIdle

ImportNext == SamlImport

SpecImport == ImportSpecInit /\ [][ImportNext]_vars

SamlSpecInit == SamlInit /\ GeoIdle /\ imp = ImpIdle

SpecSaml == SamlSpecInit /\ [][SamlNext]_vars

(***************************************************************************)
(* Geo/IP rules: properties.                                               *)
(***************************************************************************)
GeoDone(op) == gpc = "idle" /\ gop = op
GeoLastCall == gcalls[Len(gcalls)]
EmptyRules == Rules({}, {}, {}, {})

\* The Read that just returned nil came right after an entry point `op` that
\* returned nil, and no other client wrote the repository since its submit.
ReadRightAfter(op) ==
    /\ GeoDone("Read") /\ gret = Nil
    /\ gprev.op = op /\ gprev.ok
    /\ gclean

\* C1: an Update(R) that returns nil, followed by a Read of the same repository
\* with no other write in between, leaves the four rule fields of the local
\* state equal (as sets) to the four sets of R, and namespace and repository
\* as they were.
C1_UpdateThenReadYieldsR ==
    ReadRightAfter("Update") =>
        /\ RulesOf(gd) = gprev.rules
        /\ gd.namespace = gin.namespace
        /\ gd.repository = gin.repository

C1_Witness ==
    /\ ReadRightAfter("Update")
    /\ GeoLastCall = Call("read", 200)
    /\ Cardinality(gprev.rules.cidr_allow) = 2
    /\ gd.country_code_deny = {"DE"}

\* C2: a Delete that returns nil, followed by a Read of the same repository
\* (which still exists remotely) with no other write in between, yields four
\* empty sets; Delete issued one call, the rule-set update call, and it left
\* four empty lists in the remote rule set.
C2_DeleteThenReadYieldsEmpty ==
    /\ (ReadRightAfter("Delete") /\ gremote[Target(gd)].exists) => RulesOf(gd) = EmptyRules
    /\ (GeoDone("Delete") /\ gret = Nil) =>
          /\ gcalls = <<Call("update", 200)>>
          /\ gclean => gremote[Target(gd)].rules = EmptyLists

C2_Witness ==
    /\ ReadRightAfter("Delete")
    /\ GeoLastCall = Call("read", 200)
    /\ RulesOf(gin) # EmptyRules
    /\ RulesOf(gd) = EmptyRules

\* C3: every Create that returns nil has left Geo/IP filtering enabled on the
\* target repository, whatever the rule set, and its enable call came before
\* its rule-set update call.
C3_CreateEnablesFiltering ==
    (GeoDone("Create") /\ gret = Nil) =>
        /\ gremote[Target(gd)].enabled
        /\ Len(gcalls) = 3
        /\ gcalls[1] = Call("enable", 200)
        /\ gcalls[2] = Call("update", 200)

C3_Witness ==
    /\ GeoDone("Create") /\ gret = Nil
    /\ RulesOf(gin) = EmptyRules
    /\ gremote[Target(gd)].enabled

\* C10 as stated: whenever Update (or Create) returns nil, the local identity is
\* "<namespace>_<repository>_geo_ip_rules", for every outcome of the Read that
\* Update performs.
C10_IdentityAfterUpdate_AsStated ==
    ((GeoDone("Update") \/ GeoDone("Create")) /\ gret = Nil) =>
        gd.id = gin.namespace \o "_" \o gin.repository \o "_geo_ip_rules"

\* C10 as amended: whenever Update (or Create) returns nil, the local identity is
\* "<namespace>_<repository>_geo_ip_rules" unless the Read that Update performs
\* answered not-found, in which case the identity is empty.
C10_IdentityAfterUpdate ==
    ((GeoDone("Update") \/ GeoDone("Create")) /\ gret = Nil) =>
        /\ GeoLastCall.call = "read"
        /\ GeoLastCall.status \in {200, 404}
        /\ gd.id = IF GeoLastCall.status = 404
                   THEN ""
                   ELSE gin.namespace \o "_" \o gin.repository \o "_geo_ip_rules"

C10_Witness ==
    /\ GeoDone("Update") /\ gret = Nil
    /\ GeoLastCall = Call("read", 200)
    /\ gd.id = "acme_edge_geo_ip_rules"

\* A step of an entry point of the Geo/IP adapter (not of another client).
GeoAdapterStep == gpc # "idle" /\ (gpc' # gpc \/ gcalls' # gcalls)

\* C13: no step of a Geo/IP entry point turns filtering off on a repository
\* where it is on, so once Create has enabled it it stays enabled through every
\* later Read, Update and Delete; the calls the entry points issue are enable,
\* rule-set update and read calls only; and the step of Delete issues one
\* rule-set update call and changes nothing of the remote service but the four
\* rule sets of its repository.
C13_FilteringStaysEnabled ==
    [][ /\ \A k \in RepoKeys : gremote[k].enabled => gremote'[k].enabled
        /\ \A i \in DOMAIN gcalls' : gcalls'[i].call \in {"enable", "update", "read"}
        /\ (gpc = "delete" /\ GeoAdapterStep) =>
              /\ Len(gcalls') = 1 /\ gcalls'[1].call = "update"
              /\ \A k \in RepoKeys :
                    /\ gremote'[k].enabled = gremote[k].enabled
                    /\ gremote'[k].exists = gremote[k].exists
                    /\ k # Target(gd) => gremote'[k] = gremote[k]
      ]_vars

C13_Witness ==
    /\ GeoDone("Delete") /\ gret = Nil
    /\ gprev.op = "Create" /\ gprev.ok
    /\ gclean
    /\ gremote[Target(gd)].enabled
    /\ gremote[Target(gd)].rules = EmptyLists
    /\ RulesOf(gd) # EmptyRules

\* The enable call of the Create that runs, or ran last, returned an error.
EnableFailed == gop = "Create" /\ Len(gcalls) >= 1 /\ gcalls[1].status # 200

\* Create after a failed enable call: its calls, its result and its data.
C17_State ==
    EnableFailed =>
        /\ gpc = "idle"
        /\ gret # Nil
        /\ gcalls = <<Call("enable", StatusOf(gret))>>
        /\ gd = gin
        /\ gd.id = ""

\* The step of Create that gets the error of the enable call.
C17_Step ==
    (gpc = "enable" /\ gpc' = "idle") =>
        /\ gremote' = gremote
        /\ gd' = gd
        /\ EnableFailed'

\* C17: when the enable call of Create returns an error, Create returns that
\* error at once: the enable call is its only call (no rule-set update call, no
\* read call), the step leaves the remote service, rule sets included, as it
\* was, and the local data and the identity, which is not set, as they were.
C17_EnableFailureEndsCreate ==
    /\ [](C17_State)
    /\ [][C17_Step]_vars

C17_Witness ==
    /\ GeoDone("Create")
    /\ gcalls = <<Call("enable", 500)>>
    /\ gret = ErrServer
    /\ gd.id = ""
    /\ RulesOf(gin) # EmptyRules
    /\ gremote[Target(gd)].rules # EmptyLists
    /\ ~ gremote[Target(gd)].enabled

(***************************************************************************)
(* samlImport: properties.                                                 *)
(***************************************************************************)
Dots(s) == Cardinality({ i \in DOMAIN s : s[i] = "." })

\* C6: Import of an identifier with exactly one '.' (two parts) succeeds and
\* sets organization to the part before it and the identity to the part after
\* it; for an identifier of one part or of three or more parts Import fails
\* with the import-format error and leaves organization and identity as they
\* were.
C6_ImportSplitsInTwo ==
    imp.status = "done" =>
        IF Dots(imp.in.id) = 1
        THEN /\ imp.err = "nil"
             /\ imp.d.organization \o <<".">> \o imp.d.id = imp.in.id
             /\ Dots(imp.d.organization) = 0
             /\ Dots(imp.d.id) = 0
        ELSE /\ imp.err = "ImportFormatError"
             /\ imp.d = imp.in

C6_Witness ==
    /\ imp.status = "done"
    /\ imp.in = [id |-> <<"a", "b", ".", "b">>, organization |-> <<>>]
    /\ imp.err = "nil"
    /\ imp.d = [id |-> <<"b">>, organization |-> <<"a", "b">>]

(***************************************************************************)
(* SAML group sync and the waiter: properties.                             *)
(***************************************************************************)
SamlDone(op) == spc = "idle" /\ sop = op
MappingOf(d) == [f \in MappingFields |-> d[f]]
SamlLastCall == scalls[Len(scalls)]

\* C4 as stated: a Create whose create call the service accepted (and that
\* returned nil), followed immediately by a Read whose list call succeeds,
\* yields the submitted idp_key, idp_value, team and role and a non-empty
\* slug_perm and identity, however long the list takes to show the new mapping.
C4_CreateThenRead_AsStated ==
    (SamlDone("Read") /\ sprev = "CreateOk" /\ sresp.status = 200) =>
        /\ sd.id # ""
        /\ sd.slug_perm # ""
        /\ MappingOf(sd) = MappingOf(sin)

\* C5: when the list call of Create's wait answers 422 and the declared team
\* does not exist, that is the last list call of the wait and the last call of
\* Create: the waiter ends in FatalError (not TimedOut) and Create returns the
\* "team does not exist" error.  No list call of such a Create, in the wait or
\* after it, is followed by another call once it has answered 422.
C5_UnprocessableEndsCreate ==
    /\ \A i \in DOMAIN spoll.seen :
          (spoll.site = "created" /\ spoll.seen[i] = 422 /\ sin.team \notin RemoteTeams) =>
              /\ i = Len(spoll.seen)
              /\ spoll.calls = i
              /\ spoll.state = "FatalError"
              /\ spc = "idle"
              /\ SamlLastCall = Call("list", 422)
              /\ sret.kind = "team_does_not_exist"
    /\ \A i \in DOMAIN scalls :
          (sop = "Create" /\ scalls[i] = Call("list", 422) /\ sin.team \notin RemoteTeams) =>
              /\ i = Len(scalls)
              /\ spc = "idle"
              /\ sret.kind \in {"team_does_not_exist", "http422"}

C5_Witness ==
    /\ SamlDone("Create")
    /\ sin.team = "ghost-team"
    /\ spoll.seen = <<404, 422>>
    /\ swait.timeout = MaxTimeout
    /\ sret.kind = "team_does_not_exist"

\* Every invocation of the checker so far got a not-found response, so the
\* checker of Create signalled "keep waiting" each time.
AlwaysKeepWaiting ==
    /\ spoll.site = "created"
    /\ \A i \in DOMAIN spoll.seen : spoll.seen[i] = 404

\* C7: for every timeout T and interval I, a run of the waiter whose checker
\* signals "keep waiting" on every invocation never ends Succeeded or
\* FatalError; it runs while the time slept is at most T, ends TimedOut once
\* it exceeds T, and has then invoked the checker n times with
\* T - I <= n * I <= T + I (n within 1 of T / I).
C7_KeepWaitingTimesOut ==
    AlwaysKeepWaiting =>
        /\ spoll.state \in {"Running", "TimedOut"}
        /\ spoll.calls = Len(spoll.seen)
        /\ spoll.state = "Running" => spoll.elapsed <= swait.timeout
        /\ spoll.state = "TimedOut" =>
              /\ spoll.elapsed > swait.timeout
              /\ spoll.err = ErrTimedOut
              /\ spoll.calls * swait.interval + swait.interval >= swait.timeout
              /\ spoll.calls * swait.interval <= swait.timeout + swait.interval

C7_Witness ==
    /\ AlwaysKeepWaiting
    /\ spoll.state = "TimedOut"
    /\ swait = [timeout |-> 3, interval |-> 2]
    /\ spoll.calls = 2

\* The error the checker of a call site returns for a list response that is
\* neither a success nor a not-found.
FatalFor(site, status) ==
    CASE status = 422 -> IF site = "created" THEN ErrTeamDoesNotExist ELSE ErrUnprocessable
      [] status = 500 -> ErrServer
      [] OTHER -> ErrTransport

\* C8: a run of the waiter whose checker returns a fatal error on its first
\* invocation ends in FatalError after exactly that one invocation, and the
\* error it reports is the checker's error.
C8_FatalOnFirstCheck ==
    (Len(spoll.seen) >= 1 /\ spoll.seen[1] \in {0, 422, 500}) =>
        /\ spoll.state = "FatalError"
        /\ spoll.calls = 1
        /\ Len(spoll.seen) = 1
        /\ spoll.err = FatalFor(spoll.site, spoll.seen[1])

C8_Witness ==
    /\ spoll.site = "created"
    /\ spoll.seen = <<0>>
    /\ spoll.state = "FatalError"
    /\ spoll.err = ErrTransport
    /\ swait.timeout > 0

\* C9 as stated: Read ends with a non-empty identity exactly when the list call
\* succeeded and the page has an entry whose slugPerm is the stored identity.
C9_ReadIdentity_AsStated ==
    SamlDone("Read") =>
        (sd.id # "" <=> (sresp.status = 200 /\ sresp.match # {}))

\* C9 as amended: a Read that returns nil ends with a non-empty identity
\* exactly when the list call succeeded and the page has an entry whose
\* slugPerm is the stored identity; then idp_key, idp_value, role, team and
\* slug_perm are that entry's and organization and the identity are as they
\* were.  On a not-found response, or a page without such an entry, Read clears
\* the identity and returns nil.  On any other error of the list call Read
\* returns that error and changes nothing, so the identity stays as it was.
C9_ReadIdentity ==
    SamlDone("Read") =>
        /\ sret = Nil => (sd.id # "" <=> (sresp.status = 200 /\ sresp.match # {}))
        /\ (sresp.status = 200 /\ sresp.match # {}) =>
              /\ sret = Nil
              /\ sd.id = sin.id
              /\ sd.organization = sin.organization
              /\ \A item \in sresp.match :
                    /\ MappingOf(sd) = MappingOf(item)
                    /\ sd.slug_perm = item.slug_perm
        /\ (sresp.status = 404 \/ (sresp.status = 200 /\ sresp.match = {})) =>
              /\ sret = Nil
              /\ sd = [sin EXCEPT !.id = ""]
        /\ sresp.status \notin {200, 404} =>
              /\ sret # Nil
              /\ StatusOf(sret) = sresp.status
              /\ sret.ctx = "none"
              /\ sd = sin

C9_Witness ==
    /\ SamlDone("Read")
    /\ sresp.status = 200
    /\ sresp.match # {}
    /\ sin.slug_perm = ""
    /\ sd.slug_perm = "slug1"
    /\ sd.id = "slug1"
    /\ sd.team = "dev-team"

\* The entry point that returned last returned an error.
SamlFailed == spc = "idle" /\ sret # Nil

\* The waiter of the entry point that returned last ended with an error.
PollFailed == spoll.state \in {"TimedOut", "FatalError"}

C12_DeleteMeansAbsent_AsStated ==
    (SamlDone("Delete") /\ sret = Nil) =>
        ~ \E row \in Listed : row.slug_perm = sd.id

\* The slugs of the mappings the organization holds.
HeldSlugs == { row.slug_perm : row \in Held }

\* The delete call of the entry point that runs, or ran last, was accepted.
DeleteAccepted == \E i \in DOMAIN scalls : scalls[i] = Call("delete", 200)

\* Update returned an error from its Create step, after its Delete step.
UpdateFailedInCreate ==
    /\ SamlDone("Update") /\ sret # Nil
    /\ \E i \in DOMAIN scalls : scalls[i].call = "create"

\* Update returned the error of its create call, after its Delete step.
UpdateFailedInCreateCall ==
    /\ UpdateFailedInCreate
    /\ SamlLastCall.call = "create"

\* C14 as stated: when Update's Delete step succeeds and its Create step then
\* fails, Update returns an error and the organization holds neither the old
\* mapping nor a replacement (a mapping, under another slug, with the declared
\* fields).
C14_UpdateLosesMapping_AsStated ==
    UpdateFailedInCreate =>
        /\ sin.id \notin HeldSlugs
        /\ ~ \E row \in Held : MappingOf(row) = MappingOf(sin)

\* Update's calls and what the organization holds, in every state.
C14_State ==
    /\ (SamlDone("Update") /\ sret = Nil) =>
          (scalls[1] = Call("delete", 200) /\ CreateAccepted)
    /\ (sop = "Update" /\ DeleteAccepted) => sin.id \notin HeldSlugs
    /\ UpdateFailedInCreateCall =>
          /\ Len(scalls) = 3
          /\ scalls[1] = Call("delete", 200)
          /\ scalls[2].call = "list" /\ scalls[2].status \in {200, 404}
          /\ sret = ErrServer
    /\ \A row \in srows : \E n \in 1..(snext - 1) : row.slug_perm = SlugOf(n)

\* What a step may add to the mappings the organization holds.
C14_Step ==
    /\ (spc = "create_call" /\ spc' = "idle") => (srows' = srows /\ sret' # Nil)
    /\ HeldSlugs' \subseteq (HeldSlugs \cup {SlugOf(snext)})
    /\ ~ (HeldSlugs' \subseteq HeldSlugs) =>
          (spc = "create_call" /\ spc' = "create_poll" /\ snext' = snext + 1)

\* C14 as amended: Update is Delete followed by Create (an Update that returns
\* nil had its delete call and then its create call accepted).  From the
\* accepted delete call on the organization no longer holds the old mapping,
\* through the rest of Update and after it.  When the create call then fails,
\* Update returns that error after the calls delete, list, create, and the
\* failed create call has added nothing.  A mapping is added only by an
\* accepted create call, under a new slug, so the old mapping never comes back
\* and the organization stays without a replacement until a later create call
\* is accepted.
C14_UpdateLosesMapping ==
    /\ [](C14_State)
    /\ [][C14_Step]_vars

C14_Witness ==
    /\ UpdateFailedInCreateCall
    /\ scalls = <<Call("delete", 200), Call("list", 200), Call("create", 500)>>
    /\ sin.id = "slug1"
    /\ srows = {}

\* C15 as stated: when Update fails in its Create step after its Delete step
\* succeeded, the local identity no longer names the slug of the deleted
\* mapping.
C15_NoStaleIdentity_AsStated ==
    UpdateFailedInCreate => sd.id # sin.id

\* The list calls of the wait of Create so far: the statuses of the responses.
CreatePollSeen == IF spoll.site = "created" THEN spoll.seen ELSE <<>>

\* C16: in the wait of Create every list call but the last answered not-found;
\* a list call that succeeds ends the wait as Succeeded, whatever its page
\* holds; a list call that fails with anything but not-found (422, another
\* status, no response at all) ends the wait as FatalError with the check
\* function's error, and it is the last call of Create.
C16_CreatePollReinvokes ==
    LET n == Len(CreatePollSeen) IN
    /\ spoll.site = "created" => spoll.calls = n
    /\ \A i \in 1..(n - 1) : CreatePollSeen[i] = 404
    /\ n >= 1 =>
          /\ CreatePollSeen[n] = 200 => spoll.state = "Succeeded"
          /\ CreatePollSeen[n] = 404 => spoll.state \in {"Running", "TimedOut"}
          /\ CreatePollSeen[n] \in {0, 422, 500} =>
                /\ spoll.state = "FatalError"
                /\ spoll.err = FatalFor("created", CreatePollSeen[n])
                /\ spc = "idle"
                /\ SamlLastCall = Call("list", CreatePollSeen[n])
                /\ sret.kind = spoll.err.kind
          /\ spoll.state = "Running" => spc = "create_poll"

C16_Witness ==
    /\ spoll.site = "created"
    /\ spoll.seen = <<404, 200>>
    /\ spoll.state = "Succeeded"
    /\ spc = "read"
    /\ \E row \in srows : row.slug_perm = sd.id /\ row.vis = "pending"

\* The slug the service gave to the mapping created last.
LastSlug == SlugOf(snext - 1)

\* C18: when the create call of Create is accepted, the identity is the slug
\* the service returned from the start of the wait on, and it still is when the
\* wait ends TimedOut or FatalError: Create then returns an error, the identity
\* is set, the organization still holds the created mapping and no delete call
\* was made.  When the create call fails, Create returns its error, the local
\* data and the identity are as they were and the create call is the only call
\* (no list call).
C18_IdentityKeptOnPollFailure ==
    /\ spc = "create_poll" =>
          /\ CreateAccepted
          /\ sd.id = LastSlug
          /\ sd.id \in HeldSlugs
    /\ (SamlDone("Create") /\ CreateAccepted /\ PollFailed) =>
          /\ sret # Nil
          /\ sret.kind = spoll.err.kind
          /\ sd.id = LastSlug
          /\ sd.id \in HeldSlugs
          /\ \A i \in DOMAIN scalls : scalls[i].call \in {"create", "list"}
    /\ (SamlDone("Create") /\ ~ CreateAccepted) =>
          /\ sret = ErrServer
          /\ sd = sin
          /\ sd.id = ""
          /\ scalls = <<Call("create", 500)>>
          /\ spoll = PollIdle

C18_Witness ==
    /\ SamlDone("Create")
    /\ spoll.state = "TimedOut"
    /\ swait.timeout = MaxTimeout
    /\ sret = [kind |-> "timed_out", ctx |-> "created", id |-> "slug1"]
    /\ sd.id = "slug1"
    /\ \E row \in Held : row.slug_perm = "slug1"

\* C19: the wait of Delete never goes round: it makes one list call and ends
\* Succeeded or FatalError, never TimedOut.  After an accepted delete call
\* Delete makes exactly that one list call; when it succeeds or answers
\* not-found Delete returns nil, whatever the page holds; on any other error
\* Delete returns that error (with the context of the wait).  When the delete
\* call fails Delete returns its error and makes no list call.
C19_DeletePollsOnce ==
    /\ spoll.site = "deleted" =>
          /\ spoll.state \in {"Running", "Succeeded", "FatalError"}
          /\ spoll.calls = Len(spoll.seen)
          /\ spoll.calls <= 1
          /\ spoll.state = "Running" <=> spoll.calls = 0
          /\ spoll.state = "Running" <=> spc = "delete_poll"
          /\ spoll.state = "Succeeded" <=> (spoll.calls = 1 /\ spoll.seen[1] \in {200, 404})
    /\ (SamlDone("Delete") /\ DeleteAccepted) =>
          /\ Len(scalls) = 2
          /\ scalls[1] = Call("delete", 200)
          /\ scalls[2] = Call("list", spoll.seen[1])
          /\ IF spoll.seen[1] \in {200, 404}
             THEN sret = Nil
             ELSE /\ spoll.state = "FatalError"
                  /\ sret = Wrap(FatalFor("deleted", spoll.seen[1]), "deleted", sd.id)
    /\ (SamlDone("Delete") /\ ~ DeleteAccepted) =>
          /\ Len(scalls) = 1
          /\ scalls[1].call = "delete"
          /\ sret = Err(sret.kind)
          /\ StatusOf(sret) = scalls[1].status
          /\ sret # Nil
          /\ spoll = PollIdle

C19_Witness ==
    /\ SamlDone("Delete")
    /\ sret = Nil
    /\ scalls = <<Call("delete", 200), Call("list", 200)>>
    /\ spoll.state = "Succeeded"
    /\ \E row \in Listed : row.slug_perm # sd.id
    /\ swait.timeout = 0

=============================================================================
